---- MODULE Spec2Model ----
(***************************************************************************)
(* A model of matrirc's room-identity engine (src/matrix/room_mappings.rs) *)
(* and of its session establishment (src/ircd/login.rs).                   *)
(*                                                                         *)
(* Strings are sequences of text fragments.  Strings the code takes apart  *)
(* (display names, room ids, message bodies) are sequences of              *)
(* one-character fragments, so that sanitize and splitn work on            *)
(* characters; other texts are kept as one fragment each.                  *)
(* Option<T> is a sequence of length 0 (None) or 1 (Some(x)).              *)
(* Result<T> is a record [ok |-> TRUE, val |-> x] or [ok |-> FALSE,        *)
(* err |-> e].                                                             *)
(***************************************************************************)
EXTENDS Integers, Sequences, FiniteSets, TLC

\* ------------------------------------------------------------- bounds
\* concurrent event-handler tasks calling into the registry
NumTasks == 2
\* largest active-member count a membership fetch reports
MaxMembers == 3
\* RoomTarget inner states alive at once (Arc::new(RwLock::new(..)))
MaxHandles == 2
\* messages passed to send_irc_message for one target
MaxSent == 2
\* join_chan calls on one target
MaxJoins == 2
\* events one connection's stream delivers
MaxEvents == 6

Tasks == 1..NumTasks

\* ------------------------------------------------------------- values
None == <<>>
Some(x) == <<x>>
Ok(x) == [ok |-> TRUE, val |-> x]
Err(e) == [ok |-> FALSE, err |-> e]

\* remote room ids, as room_id().to_string() prints them
RoomIds == { <<"!", "p">>, <<"!", "q">> }
\* display names the remote protocol may report for a room
DisplayNames == { <<"a", "b">>, <<"a", " ", "b">> }
\* remote member ids, as sender_id.to_string() prints them
UserIds == { <<"@", "u">> }
\* per-target nicknames
Nicks == { <<"n", "k">> }
\* message bodies
Texts == { <<"x">>, <<"y">> }
MessageTypes == { "Privmsg" }
\* irc.nick of the connected client
IrcNick == <<"m", "e">>
\* error text of a failed room.members() call
MembersError == <<"members request failed">>

\* the characters SANITIZE's class [^a-zA-Z_-] does not match
SanitizeKept ==
    { "a", "b", "c", "d", "e", "f", "g", "h", "i", "j", "k", "l", "m",
      "n", "o", "p", "q", "r", "s", "t", "u", "v", "w", "x", "y", "z",
      "A", "B", "C", "D", "E", "F", "G", "H", "I", "J", "K", "L", "M",
      "N", "O", "P", "Q", "R", "S", "T", "U", "V", "W", "X", "Y", "Z",
      "_", "-" }

\* end (exclusive) of the longest match of [^a-zA-Z_-]+ starting at i
RECURSIVE MatchEnd(_, _)
MatchEnd(s, i) ==
    IF i <= Len(s) /\ s[i] \notin SanitizeKept THEN MatchEnd(s, i + 1) ELSE i

\* Regex::replace_all(s, ""), scanning from position i
RECURSIVE ReplaceAll(_, _)
ReplaceAll(s, i) ==
    IF i > Len(s) THEN <<>>
    ELSE IF s[i] \notin SanitizeKept THEN ReplaceAll(s, MatchEnd(s, i))
    ELSE <<s[i]>> \o ReplaceAll(s, i + 1)

\* Regex::replace in the place of replace_all: the first match only
sanitize_first_match(str) ==
    IF \E i \in 1..Len(str) : str[i] \notin SanitizeKept
    THEN LET i == CHOOSE k \in 1..Len(str) :
                     /\ str[k] \notin SanitizeKept
                     /\ \A j \in 1..(k-1) : str[j] \in SanitizeKept
         IN SubSeq(str, 1, i - 1) \o SubSeq(str, MatchEnd(str, i), Len(str))
    ELSE str

\* sanitize: SANITIZE.replace_all(str, "")
sanitize(str) == ReplaceAll(str, 1)

\* HashMap::new()
EmptyMap == [x \in {} |-> x]
\* HashMap::insert: an existing entry for the key is replaced
MapInsert(map, k, v) ==
    [x \in (DOMAIN map) \cup {k} |-> IF x = k THEN v ELSE map[x]]
\* HashMap::get
MapGet(map, k) == IF k \in DOMAIN map THEN Some(map[k]) ELSE None

\* Chan::new
ChanNew(target) == [target |-> target, members |-> EmptyMap, names |-> EmptyMap]

\* JoiningChan::new
JoiningChanNew(target) == [chan |-> ChanNew(target), pending_messages |-> <<>>]

\* RoomTargetInner, a tagged union: the queue exists in JoiningChan only
Query(c) == [kind |-> "Query", chan |-> c]
Chan(c) == [kind |-> "Chan", chan |-> c]
LeftChan(c) == [kind |-> "LeftChan", chan |-> c]
JoiningChan(j) ==
    [kind |-> "JoiningChan", chan |-> j.chan, pending_messages |-> j.pending_messages]

\* RoomTarget::query: the inner state it allocates
query(target) ==
    Query([target |-> sanitize(target), members |-> EmptyMap, names |-> EmptyMap])

\* RoomTarget::chan: the inner state it allocates
chan(chan_name) == JoiningChan(JoiningChanNew(sanitize(chan_name)))

\* a RoomTarget: a shared reference to the inner state at heap[inner],
\* plus the error annotation
RoomTarget(h) == [inner |-> h, error |-> None]

\* set_error with the annotation lost
set_error_dropped(self, error) == self

\* RoomTarget::set_error
set_error(self, error) == [self EXCEPT !.error = Some(error)]

\* target_of_room with the query/channel boundary one too low
target_of_room_off_by_one(name, members) ==
    IF ~members.ok THEN Err(members.err)
    ELSE IF members.val = 0
         THEN Err(<<"Message in empty room ">> \o name \o <<"?">>)
    ELSE IF members.val = 1 THEN Ok(query(name))
    ELSE Ok(chan(name))

\* RoomTarget::target_of_room: `members` is the outcome of
\* room.members(ACTIVE), Ok(len) or Err; the result is the inner state of
\* the new target, or the error
target_of_room(name, members) ==
    IF ~members.ok THEN Err(members.err)
    ELSE IF members.val = 0
         THEN Err(<<"Message in empty room ">> \o name \o <<"?">>)
    ELSE IF members.val \in {1, 2} THEN Ok(query(name))
    ELSE Ok(chan(name))

\* join_chan handing the queue out and leaving the state as it is
join_chan_keeps_queue(inner) ==
    IF inner.kind = "JoiningChan"
    THEN [inner |-> inner, result |-> Ok(inner.pending_messages)]
    ELSE IF inner.kind = "LeftChan"
    THEN [inner |-> Chan(inner.chan), result |-> Ok(<<>>)]
    ELSE [inner |-> inner, result |-> Err(<<"invalid room target">>)]

\* join_chan accepting every channel state, joined ones too
join_chan_rejoins(inner) ==
    IF inner.kind = "JoiningChan"
    THEN [inner |-> Chan(inner.chan), result |-> Ok(inner.pending_messages)]
    ELSE IF inner.kind \in {"LeftChan", "Chan"}
    THEN [inner |-> Chan(inner.chan), result |-> Ok(<<>>)]
    ELSE [inner |-> inner, result |-> Err(<<"invalid room target">>)]

\* RoomTarget::join_chan on an inner state: the new inner state and the
\* function's result
join_chan(inner) ==
    IF inner.kind = "JoiningChan"
    THEN [inner |-> Chan(inner.chan), result |-> Ok(inner.pending_messages)]
    ELSE IF inner.kind = "LeftChan"
    THEN [inner |-> Chan(inner.chan), result |-> Ok(<<>>)]
    ELSE [inner |-> inner, result |-> Err(<<"invalid room target">>)]

\* format!("<{}> {}", label, message)
Labelled(label, message) == <<"<">> \o label \o <<">", " ">> \o message

\* every variant rendering as the channel variants do
render_same_label(inner, message_type, sender_id, message) ==
    [ message_type |-> message_type,
      from |-> inner.chan.target,
      target |-> IrcNick,
      message |->
        IF sender_id \in DOMAIN inner.chan.members
        THEN Labelled(inner.chan.members[sender_id], message)
        ELSE Labelled(sender_id, message) ]

\* RoomTarget::send_irc_message: the IrcMessage it renders from the
\* inner state
render(inner, message_type, sender_id, message) ==
    [ message_type |-> message_type,
      from |-> inner.chan.target,
      target |-> IrcNick,
      message |->
        IF inner.kind = "Query"
        THEN IF sender_id \in DOMAIN inner.chan.members
             THEN Labelled(inner.chan.members[sender_id], message)
             ELSE message
        ELSE IF sender_id \in DOMAIN inner.chan.members
             THEN Labelled(inner.chan.members[sender_id], message)
             ELSE Labelled(sender_id, message) ]

\* Mappings::room_target: the RoomTarget returned for the outcome `tried`
\* of try_room_target; h is the handle of the inner state allocated for the
\* temporary error target
room_target(tried, h) ==
    IF tried.ok THEN tried.val
    ELSE set_error(RoomTarget(h),
                   <<"Could not find or create target: ">> \o tried.err)

\* ------------------------------------------------------------- state
VARIABLES
    rooms,      \* MappingsInner.rooms: room id -> RoomTarget
    targets,    \* MappingsInner.targets: name -> room id
    wlock,      \* the task holding Mappings.inner's write lock, 0 if none
    heap,       \* the live inner states (Arc<RwLock<RoomTargetInner>>), by handle
    pc,         \* per task: where it is
    room,       \* per task: the room of its room_target call
    name,       \* per task: try_room_target's `name`
    nmembers,   \* per task: members.len() seen by target_of_room, if any
    tried,      \* per task: the result of try_room_target
    ret,        \* per task: the RoomTarget that room_target returned
    sent,       \* messages accepted by irc.send, in order
    joins,      \* per handle: the results of the join_chan calls, in order
    submitted,  \* history, per handle: the messages rendered by
                \* send_irc_message while the target was JoiningChan
    lpc,          \* the connection's place in auth_loop and its callees
    client_nick,  \* auth_loop's client_nick
    client_user,  \* auth_loop's client_user
    client_pass,  \* auth_loop's client_pass
    event,        \* what the last stream.try_next() yielded
    found,        \* state::login's answer, once asked: Some(Option<Session>)
    creds,        \* matrix_login_loop's [homeserver, user, pass] of the reply
    store,        \* the credential store: nick -> Option<Session>
    nread,        \* events taken from the stream so far
    trace,        \* what the connection did, in order: messages written to
                  \* the stream, calls to the store and to the remote protocol
    outcome,      \* auth_loop's result, once it returned
    given,        \* a string handed to sanitize
    applied       \* the results of sanitize on it, each applied to the last

roomvars == <<rooms, targets, wlock, heap, pc, room, name, nmembers, tried,
              ret, sent, joins, submitted>>

loginvars == <<lpc, client_nick, client_user, client_pass, event, found,
               creds, store, nread, trace, outcome>>

stringvars == <<given, applied>>

vars == <<roomvars, loginvars, stringvars>>

NoRoom == <<>>
NoName == <<>>
NoTarget == [inner |-> 0, error |-> None]

Handles == 1..MaxHandles

\* a fresh Mappings and idle tasks
RoomsInit ==
    /\ rooms = EmptyMap
    /\ targets = EmptyMap
    /\ wlock = 0
    /\ heap = EmptyMap
    /\ pc = [t \in Tasks |-> "idle"]
    /\ room = [t \in Tasks |-> NoRoom]
    /\ name = [t \in Tasks |-> NoName]
    /\ nmembers = [t \in Tasks |-> None]
    /\ tried = [t \in Tasks |-> None]
    /\ ret = [t \in Tasks |-> NoTarget]
    /\ sent = <<>>
    /\ joins = EmptyMap
    /\ submitted = EmptyMap

InResolve == {"read", "display_name", "write", "members"}

\* Arc::new: the handle of the next allocation
NewHandle(hp) == CHOOSE h \in Handles \ DOMAIN hp : \A k \in Handles \ DOMAIN hp : h <= k

\* the heap with a new inner state in it
Alloc(hp, inner) == MapInsert(hp, NewHandle(hp), inner)

\* the handles some RoomTarget still refers to when task t drops its own
Referenced(t) ==
    {rooms[r].inner : r \in DOMAIN rooms}
        \cup {ret[u].inner : u \in {v \in Tasks \ {t} : pc[v] = "done"}}

\* a map without the entries of the handles not in `live`
Restrict(map, live) == [h \in (DOMAIN map) \cap live |-> map[h]]

\* try_room_target returns `result` to room_target, which returns to the
\* caller; heap1 is the heap as try_room_target left it
Finish(t, result, heap1) ==
    /\ tried' = [tried EXCEPT ![t] = Some(result)]
    /\ ret' = [ret EXCEPT ![t] = room_target(result, NewHandle(heap1))]
    /\ heap' = IF result.ok THEN heap1
               ELSE Alloc(heap1, query(<<"m", "a", "t", "r", "i", "r", "c">>))
    /\ joins' = [h \in DOMAIN heap' |-> IF h \in DOMAIN joins THEN joins[h] ELSE <<>>]
    /\ submitted' = [h \in DOMAIN heap' |->
                        IF h \in DOMAIN submitted THEN submitted[h] ELSE <<>>]
    /\ pc' = [pc EXCEPT ![t] = "done"]

\* a task calls mappings.room_target(room)
Call(t, r) ==
    /\ pc[t] = "idle"
    /\ Cardinality(DOMAIN heap) + Cardinality({u \in Tasks : pc[u] \in InResolve})
           < MaxHandles
    /\ pc' = [pc EXCEPT ![t] = "read"]
    /\ room' = [room EXCEPT ![t] = r]
    /\ UNCHANGED <<rooms, targets, wlock, heap, name, nmembers, tried, ret,
                   sent, joins, submitted>>
    /\ UNCHANGED <<loginvars, stringvars>>

\* try_room_target's first rooms.get(room.room_id()), under the read lock
known(r) == MapGet(rooms, r)

\* the second lookup left out: a lost race goes unnoticed
raced_unchecked(r) == None

\* try_room_target's second rooms.get(room.room_id()), under the write lock
raced(r) == MapGet(rooms, r)

\* try_room_target, the happy case: look the room up under the read lock
ReadLookup(t) ==
    /\ pc[t] = "read"
    /\ wlock = 0
    /\ IF known(room[t]) # None
       THEN /\ Finish(t, Ok(known(room[t])[1]), heap)
            /\ UNCHANGED <<rooms, targets, wlock, room, name, nmembers, sent>>
       ELSE /\ pc' = [pc EXCEPT ![t] = "display_name"]
            /\ UNCHANGED <<rooms, targets, wlock, heap, room, name, nmembers,
                           tried, ret, sent, joins, submitted>>
    /\ UNCHANGED <<loginvars, stringvars>>

\* room.display_name().await: the name, or the room id when it fails
DisplayName(t) ==
    /\ pc[t] = "display_name"
    /\ \E fetched \in {Ok(n) : n \in DisplayNames} \cup {Err(<<"no name">>)} :
         name' = [name EXCEPT ![t] = IF fetched.ok THEN fetched.val ELSE room[t]]
    /\ pc' = [pc EXCEPT ![t] = "write"]
    /\ UNCHANGED <<rooms, targets, wlock, heap, room, nmembers, tried, ret,
                   sent, joins, submitted>>
    /\ UNCHANGED <<loginvars, stringvars>>

\* self.inner.write().await, then the check for a lost race
WriteLock(t) ==
    /\ pc[t] = "write"
    /\ wlock = 0
    /\ IF raced(room[t]) # None
       THEN /\ Finish(t, Ok(raced(room[t])[1]), heap)
            /\ UNCHANGED <<rooms, targets, wlock, room, name, nmembers, sent>>
       ELSE /\ wlock' = t
            /\ pc' = [pc EXCEPT ![t] = "members"]
            /\ UNCHANGED <<rooms, targets, heap, room, name, nmembers, tried,
                           ret, sent, joins, submitted>>
    /\ UNCHANGED <<loginvars, stringvars>>

\* the target registered whether or not it could be made
insert_both_always(made, r, nm, target) ==
    [rooms |-> MapInsert(rooms, r, target),
     targets |-> MapInsert(targets, nm, r)]

\* try_room_target after `target_of_room(..).await?`: the two inserts, which
\* the `?` skips when the target could not be made; the tables afterwards
insert_both(made, r, nm, target) ==
    IF made.ok
    THEN [rooms |-> MapInsert(rooms, r, target),
          targets |-> MapInsert(targets, nm, r)]
    ELSE [rooms |-> rooms, targets |-> targets]

\* target_of_room under the write lock: room.members(ACTIVE).await
\* completes, the target is created and inserted into both tables, or the
\* error is returned; either way the write lock is dropped
MembersFetch(t) ==
    /\ pc[t] = "members"
    /\ \E members \in {Ok(n) : n \in 0..MaxMembers} \cup {Err(MembersError)} :
         LET made == target_of_room(name[t], members)
             target == RoomTarget(NewHandle(heap))
         IN /\ nmembers' = [nmembers EXCEPT ![t] =
                               IF members.ok THEN Some(members.val) ELSE None]
            /\ rooms' = insert_both(made, room[t], name[t], target).rooms
            /\ targets' = insert_both(made, room[t], name[t], target).targets
            /\ IF made.ok
               THEN Finish(t, Ok(target), Alloc(heap, made.val))
               ELSE Finish(t, Err(made.err), heap)
    /\ wlock' = 0
    /\ UNCHANGED <<room, name, sent>>
    /\ UNCHANGED <<loginvars, stringvars>>

\* target.send_irc_message(irc, message_type, sender_id, message): the
\* message is rendered from the inner state under its read lock and handed
\* to irc.send, which may fail; no variant's arm touches pending_messages
SendIrcMessage(t, message_type, sender_id, message) ==
    /\ pc[t] = "done"
    /\ Len(sent) < MaxSent
    /\ Len(submitted[ret[t].inner]) < MaxSent
    /\ LET h == ret[t].inner
           rendered == render(heap[h], message_type, sender_id, message)
       IN /\ \E sending \in {Ok(rendered), Err(<<"send failed">>)} :
                sent' = IF sending.ok THEN Append(sent, rendered) ELSE sent
          /\ submitted' = IF heap[h].kind = "JoiningChan"
                          THEN [submitted EXCEPT ![h] = Append(@, rendered)]
                          ELSE submitted
    /\ UNCHANGED <<rooms, targets, wlock, heap, pc, room, name, nmembers,
                   tried, ret, joins>>
    /\ UNCHANGED <<loginvars, stringvars>>

\* target.join_chan(), under the inner state's write lock
JoinChan(t) ==
    /\ pc[t] = "done"
    /\ Len(joins[ret[t].inner]) < MaxJoins
    /\ LET h == ret[t].inner
           joined == join_chan(heap[h])
       IN /\ heap' = [heap EXCEPT ![h] = joined.inner]
          /\ joins' = [joins EXCEPT ![h] = Append(@, joined.result)]
    /\ UNCHANGED <<rooms, targets, wlock, pc, room, name, nmembers, tried,
                   ret, sent, submitted>>
    /\ UNCHANGED <<loginvars, stringvars>>

\* the task is finished with the target and drops it with its locals; the
\* inner state is freed with the last RoomTarget referring to it
Return(t) ==
    /\ pc[t] = "done"
    /\ pc' = [pc EXCEPT ![t] = "idle"]
    /\ room' = [room EXCEPT ![t] = NoRoom]
    /\ name' = [name EXCEPT ![t] = NoName]
    /\ nmembers' = [nmembers EXCEPT ![t] = None]
    /\ tried' = [tried EXCEPT ![t] = None]
    /\ ret' = [ret EXCEPT ![t] = NoTarget]
    /\ heap' = Restrict(heap, Referenced(t))
    /\ joins' = Restrict(joins, Referenced(t))
    /\ submitted' = Restrict(submitted, Referenced(t))
    /\ UNCHANGED <<rooms, targets, wlock, sent>>
    /\ UNCHANGED <<loginvars, stringvars>>

\* ------------------------------------------------ session establishment
IrcNicks == { <<"alice">>, <<"bob">> }
IrcUsers == { <<"al">> }
IrcPasses == { <<"secret">> }
\* the persisted session a store may hold, and the one a login yields
OldSession == [homeserver |-> <<"old.example">>, matrix_session |-> <<"s0">>]
NewBlob == <<"s1">>
\* PRIVMSG bodies the client may send
Bodies ==
    { <<"h", " ", "u", " ", "p">>, <<"h", " ", "u", " ", "p", " ", "w">>,
      <<"h", " ", "u">>, <<"h", "u", "p">> }

\* events of the local-protocol stream
Events ==
    {[cmd |-> "NICK", arg |-> n] : n \in IrcNicks}
        \cup {[cmd |-> "PASS", arg |-> p] : p \in IrcPasses}
        \cup {[cmd |-> "USER", arg |-> u] : u \in IrcUsers}
        \cup {[cmd |-> "CAP", arg |-> c] : c \in {None, Some("302"), Some("301")}}
        \cup {[cmd |-> "PRIVMSG", arg |-> b] : b \in Bodies}
        \cup {[cmd |-> "PING", arg |-> <<>>]}

\* what stream.try_next().await can yield
StreamItems == {Ok(Some(e)) : e \in Events} \cup {Ok(None), Err(<<"stream error">>)}

\* entries of the trace
SentRaw(text) == [kind |-> "send_raw_msg", arg |-> text]
SentPrivmsg(text) == [kind |-> "send_privmsg", arg |-> text]
Called(fn, args) == [kind |-> fn, arg |-> args]

CapReply == SentRaw(<<":matrirc CAP * LS :">>)
Welcome(nick) == SentRaw(<<":matrirc 001 ">> \o nick \o <<" :Welcome to matrirc">>)
Prompt ==
    SentPrivmsg(<<"Welcome to matrirc. Please login to matrix by replying with: <homeserver> <user> <pass>">>)
Attempting(homeserver, user) ==
    SentPrivmsg(<<"Attempting to login to ">> \o homeserver \o <<" with ">> \o user)
LoginFailed(e) == SentPrivmsg(<<"Login failed: ">> \o e \o <<". Try again.">>)
Restoring(homeserver) ==
    SentPrivmsg(<<"Welcome to matrirc. Restoring session to ">> \o homeserver)
RestoreFailed(e) ==
    SentPrivmsg(<<"Restoring session failed: ">> \o e
                  \o <<". Login again as follow or try to reconnect later.">>)

\* position of the first `sep` in s at or after i, 0 if none
RECURSIVE Find(_, _, _)
Find(s, sep, i) ==
    IF i > Len(s) THEN 0 ELSE IF s[i] = sep THEN i ELSE Find(s, sep, i + 1)

\* str::splitn(n, sep): at most n parts, the last one taking the rest
RECURSIVE splitn(_, _, _)
splitn(n, sep, s) ==
    IF n = 0 THEN <<>>
    ELSE IF n = 1 \/ Find(s, sep, 1) = 0 THEN <<s>>
    ELSE <<SubSeq(s, 1, Find(s, sep, 1) - 1)>>
             \o splitn(n - 1, sep, SubSeq(s, Find(s, sep, 1) + 1, Len(s)))

\* the reply taken for credentials from two tokens on
credentials_from_two(body) ==
    IF Len(splitn(3, " ", body)) >= 2 THEN Some(splitn(3, " ", body)) ELSE None

\* matrix_login_loop's `if let [homeserver, user, pass] = body.splitn(3, ' ')`:
\* the three parts, if there are three
credentials(body) ==
    IF Len(splitn(3, " ", body)) = 3 THEN Some(splitn(3, " ", body)) ELSE None

\* the test with the password forgotten
Registered_without_pass(nick, user, pass) == nick # None /\ user # None

\* auth_loop's test after the collection loop: all three fields are there
Registered(nick, user, pass) == nick # None /\ user # None /\ pass # None

\* the welcome left out: straight to the store
OnRegistered_silent == "state_login"

\* where auth_loop goes on once the three fields are there: the welcome
OnRegistered == "welcome"

\* the login loop giving up at the first failed login
OnLoginFailed_gives_up == "failed"

\* matrix_login_loop's `continue` after the notice of a failed login
OnLoginFailed == "login_loop"

\* a failed restore ending the connection
OnRestoreFailed_fatal == "failed"

\* matrix_restore_session's Err arm: after the notice it calls
\* matrix_login_loop
OnRestoreFailed == "login_prompt"

\* the store left as it was
create_user_unsaved(st, nick, session) == st

\* state::create_user, when it succeeds: the session persisted for the nick
create_user(st, nick, session) == [st EXCEPT ![nick] = Some(session)]

\* the match always taking the None arm
SelectBinding_prompts(answer) == "login_prompt"

\* auth_loop's match on state::login's answer: where the binding goes on
SelectBinding(answer) ==
    IF answer # None THEN "restore_greeting" ELSE "login_prompt"

\* a connection was accepted; `st` is what the credential store holds
ConnInit(st) ==
    /\ lpc = "auth_loop"
    /\ client_nick = None
    /\ client_user = None
    /\ client_pass = None
    /\ event = None
    /\ found = None
    /\ creds = None
    /\ store = st
    /\ nread = 0
    /\ trace = <<>>
    /\ outcome = None

Stores == [IrcNicks -> {None, Some(OldSession)}]

\* no string is being sanitized
NoString == given = <<>> /\ applied = <<>>

Init == RoomsInit /\ ConnInit([n \in IrcNicks |-> None]) /\ NoString

LoginInit == RoomsInit /\ (\E st \in Stores : ConnInit(st)) /\ NoString

\* an error propagates out of auth_loop: the connection is torn down
Fatal(e) ==
    /\ lpc' = "failed"
    /\ outcome' = Some(Err(e))

SendError == <<"send failed">>

\* one turn of auth_loop's collection loop
AuthEvent ==
    /\ lpc = "auth_loop"
    /\ nread < MaxEvents
    /\ nread' = nread + 1
    /\ \E item \in StreamItems :
         /\ event' = Some(item)
         /\ IF ~item.ok
            THEN /\ Fatal(item.err)
                 /\ UNCHANGED <<client_nick, client_user, client_pass, trace>>
            ELSE IF item.val = None
            THEN /\ IF Registered(client_nick, client_user, client_pass)
                    THEN lpc' = OnRegistered /\ UNCHANGED outcome
                    ELSE Fatal(<<"nick or pass wasn't set for client!">>)
                 /\ UNCHANGED <<client_nick, client_user, client_pass, trace>>
            ELSE LET ev == item.val[1] IN
                 CASE ev.cmd = "NICK" ->
                        /\ client_nick' = Some(ev.arg)
                        /\ UNCHANGED <<lpc, outcome, client_user, client_pass, trace>>
                   [] ev.cmd = "PASS" ->
                        /\ client_pass' = Some(ev.arg)
                        /\ UNCHANGED <<lpc, outcome, client_nick, client_user, trace>>
                   [] ev.cmd = "USER" ->
                        /\ client_user' = Some(ev.arg)
                        /\ IF Registered(client_nick, Some(ev.arg), client_pass)
                           THEN lpc' = OnRegistered /\ UNCHANGED outcome
                           ELSE Fatal(<<"nick or pass wasn't set for client!">>)
                        /\ UNCHANGED <<client_nick, client_pass, trace>>
                   [] ev.cmd = "CAP" /\ ev.arg = Some("302") ->
                        /\ \E sending \in {Ok(CapReply), Err(SendError)} :
                             IF sending.ok
                             THEN /\ trace' = Append(trace, sending.val)
                                  /\ UNCHANGED <<lpc, outcome>>
                             ELSE /\ Fatal(sending.err)
                                  /\ UNCHANGED trace
                        /\ UNCHANGED <<client_nick, client_user, client_pass>>
                   [] OTHER ->
                        UNCHANGED <<lpc, outcome, client_nick, client_user,
                                    client_pass, trace>>
    /\ UNCHANGED <<found, creds, store>>
    /\ UNCHANGED <<roomvars, stringvars>>

\* the welcome is written to the stream
SendWelcome ==
    /\ lpc = "welcome"
    /\ \E sending \in {Ok(Welcome(client_nick[1])), Err(SendError)} :
         IF sending.ok
         THEN /\ trace' = Append(trace, sending.val)
              /\ lpc' = "state_login"
              /\ UNCHANGED outcome
         ELSE /\ Fatal(sending.err)
              /\ UNCHANGED trace
    /\ UNCHANGED <<client_nick, client_user, client_pass, event, found, creds,
                   store, nread>>
    /\ UNCHANGED <<roomvars, stringvars>>

\* state::login(&nick, &pass)?, and the match on its answer
StateLogin ==
    /\ lpc = "state_login"
    /\ trace' = Append(trace, Called("state::login", client_nick[1]))
    /\ \E answer \in {Ok(store[client_nick[1]]), Err(<<"store error">>)} :
         IF answer.ok
         THEN /\ found' = Some(answer.val)
              /\ lpc' = SelectBinding(answer.val)
              /\ UNCHANGED outcome
         ELSE /\ Fatal(answer.err)
              /\ UNCHANGED found
    /\ UNCHANGED <<client_nick, client_user, client_pass, event, creds, store,
                   nread>>
    /\ UNCHANGED <<roomvars, stringvars>>

\* matrix_restore_session announces the restoration
RestoreGreeting ==
    /\ lpc = "restore_greeting"
    /\ \E sending \in {Ok(Restoring(found[1][1].homeserver)),
                       Err(SendError)} :
         IF sending.ok
         THEN /\ trace' = Append(trace, sending.val)
              /\ lpc' = "restore_session"
              /\ UNCHANGED outcome
         ELSE /\ Fatal(sending.err)
              /\ UNCHANGED trace
    /\ UNCHANGED <<client_nick, client_user, client_pass, event, found, creds,
                   store, nread>>
    /\ UNCHANGED <<roomvars, stringvars>>

\* matrix::login::restore_session(..).await and the match on its result
RestoreSession ==
    /\ lpc = "restore_session"
    /\ \E restored \in {Ok(found[1][1]), Err(<<"expired">>)} :
         LET called == Append(trace, Called("restore_session", found[1][1]))
         IN IF restored.ok
            THEN /\ trace' = called
                 /\ lpc' = "bound"
                 /\ outcome' = Some(Ok(<<client_nick[1], client_user[1],
                                         restored.val>>))
            ELSE \E sending \in {Ok(RestoreFailed(restored.err)), Err(SendError)} :
                   IF sending.ok
                   THEN /\ trace' = Append(called, sending.val)
                        /\ lpc' = OnRestoreFailed
                        /\ UNCHANGED outcome
                   ELSE /\ trace' = called
                        /\ Fatal(sending.err)
    /\ UNCHANGED <<client_nick, client_user, client_pass, event, found, creds,
                   store, nread>>
    /\ UNCHANGED <<roomvars, stringvars>>

\* matrix_login_loop asks for the remote credentials
LoginPrompt ==
    /\ lpc = "login_prompt"
    /\ \E sending \in {Ok(Prompt), Err(SendError)} :
         IF sending.ok
         THEN /\ trace' = Append(trace, sending.val)
              /\ lpc' = "login_loop"
              /\ UNCHANGED outcome
         ELSE /\ Fatal(sending.err)
              /\ UNCHANGED trace
    /\ UNCHANGED <<client_nick, client_user, client_pass, event, found, creds,
                   store, nread>>
    /\ UNCHANGED <<roomvars, stringvars>>

\* one turn of matrix_login_loop's loop, up to the login call
LoginEvent ==
    /\ lpc = "login_loop"
    /\ nread < MaxEvents
    /\ nread' = nread + 1
    /\ \E item \in StreamItems :
         /\ event' = Some(item)
         /\ IF ~item.ok
            THEN /\ Fatal(item.err)
                 /\ UNCHANGED <<creds, trace>>
            ELSE IF item.val = None
            THEN /\ Fatal(<<"Stream finished in matrix login loop?">>)
                 /\ UNCHANGED <<creds, trace>>
            ELSE LET ev == item.val[1]
                     parts == IF ev.cmd = "PRIVMSG" THEN credentials(ev.arg)
                              ELSE None
                 IN IF parts # None
                    THEN \E sending \in {Ok(Attempting(parts[1][1], parts[1][2])),
                                         Err(SendError)} :
                           IF sending.ok
                           THEN /\ trace' = Append(trace, sending.val)
                                /\ creds' = parts
                                /\ lpc' = "matrix_login"
                                /\ UNCHANGED outcome
                           ELSE /\ Fatal(sending.err)
                                /\ UNCHANGED <<creds, trace>>
                    ELSE UNCHANGED <<lpc, outcome, creds, trace>>
    /\ UNCHANGED <<client_nick, client_user, client_pass, found, store>>
    /\ UNCHANGED <<roomvars, stringvars>>

\* matrix::login::login(..).await and the match on its result
MatrixLogin ==
    /\ lpc = "matrix_login"
    /\ LET called == Append(trace, Called("matrix::login", creds[1])) IN
       \E logged \in {Ok(Some(NewBlob)), Ok(None), Err(<<"forbidden">>)} :
         IF logged.ok
         THEN IF logged.val = None
              THEN /\ trace' = called
                   /\ Fatal(<<"client has no session">>)
                   /\ UNCHANGED store
              ELSE LET session == [homeserver |-> creds[1][1],
                                   matrix_session |-> logged.val[1]]
                   IN \E created \in {Ok(session), Err(<<"store error">>)} :
                        /\ trace' = Append(called, Called("create_user",
                                                          client_nick[1]))
                        /\ IF created.ok
                           THEN /\ store' = create_user(store, client_nick[1],
                                                        session)
                                /\ lpc' = "bound"
                                /\ outcome' = Some(Ok(<<client_nick[1],
                                                        client_user[1], session>>))
                           ELSE /\ Fatal(created.err)
                                /\ UNCHANGED store
         ELSE \E sending \in {Ok(LoginFailed(logged.err)), Err(SendError)} :
                /\ UNCHANGED store
                /\ IF sending.ok
                   THEN /\ trace' = Append(called, sending.val)
                        /\ lpc' = OnLoginFailed
                        /\ UNCHANGED outcome
                   ELSE /\ trace' = called
                        /\ Fatal(sending.err)
    /\ creds' = None
    /\ UNCHANGED <<client_nick, client_user, client_pass, event, found, nread>>
    /\ UNCHANGED <<roomvars, stringvars>>

\* ------------------------------------------------------- specifications
\* the registry under concurrent room_target calls
Next ==
    \E t \in Tasks :
        \/ \E r \in RoomIds : Call(t, r)
        \/ ReadLookup(t)
        \/ DisplayName(t)
        \/ WriteLock(t)
        \/ MembersFetch(t)
        \/ Return(t)

Spec == Init /\ [][Next]_vars

\* one relay task: it resolves a room's target, then renders messages into
\* it and joins it
RelayNext ==
    \E t \in {1} :
        \/ \E r \in RoomIds : Call(t, r)
        \/ ReadLookup(t)
        \/ DisplayName(t)
        \/ WriteLock(t)
        \/ MembersFetch(t)
        \/ \E ty \in MessageTypes, u \in UserIds, m \in Texts :
              SendIrcMessage(t, ty, u, m)
        \/ JoinChan(t)
        \/ Return(t)

RelaySpec == Init /\ [][RelayNext]_vars

\* one connection going through auth_loop
LoginNext ==
    \/ AuthEvent
    \/ SendWelcome
    \/ StateLogin
    \/ RestoreGreeting
    \/ RestoreSession
    \/ LoginPrompt
    \/ LoginEvent
    \/ MatrixLogin

LoginSpec == LoginInit /\ [][LoginNext]_vars

\* a registered target in any state a RoomTargetInner can hold, with every
\* task holding a clone of it
MaxPending == 2

RECURSIVE SeqsUpTo(_, _)
SeqsUpTo(S, n) ==
    IF n = 0 THEN {<<>>}
    ELSE SeqsUpTo(S, n - 1)
             \cup {Append(q, x) : q \in {p \in SeqsUpTo(S, n - 1) : Len(p) = n - 1},
                                  x \in S}

\* Chan values: members and names are each other's inverse
Chans ==
    {[target |-> sanitize(n), members |-> EmptyMap, names |-> EmptyMap] :
        n \in DisplayNames}
      \cup {[target |-> sanitize(n),
             members |-> [x \in {u} |-> k],
             names |-> [x \in {k} |-> u]] :
               n \in DisplayNames, u \in UserIds, k \in Nicks}

QueuedMessages ==
    {[message_type |-> "Privmsg", from |-> <<"a", "b">>, target |-> IrcNick,
      message |-> m] : m \in Texts}

Inners ==
    {Query(c) : c \in Chans} \cup {Chan(c) : c \in Chans}
      \cup {LeftChan(c) : c \in Chans}
      \cup {JoiningChan([chan |-> c, pending_messages |-> q]) :
               c \in Chans, q \in SeqsUpTo(QueuedMessages, MaxPending)}

TargetInit ==
    /\ \E inner \in Inners, r \in RoomIds :
         /\ heap = [h \in {1} |-> inner]
         /\ rooms = [x \in {r} |-> RoomTarget(1)]
         /\ targets = [x \in {inner.chan.target} |-> r]
         /\ room = [t \in Tasks |-> r]
         /\ submitted = [h \in {1} |->
                            IF inner.kind = "JoiningChan"
                            THEN inner.pending_messages ELSE <<>>]
    /\ wlock = 0
    /\ pc = [t \in Tasks |-> "done"]
    /\ name = [t \in Tasks |-> NoName]
    /\ nmembers = [t \in Tasks |-> None]
    /\ tried = [t \in Tasks |-> Some(Ok(RoomTarget(1)))]
    /\ ret = [t \in Tasks |-> RoomTarget(1)]
    /\ sent = <<>>
    /\ joins = [h \in {1} |-> <<>>]
    /\ ConnInit([n \in IrcNicks |-> None])
    /\ NoString

TargetNext ==
    \E t \in Tasks :
        \/ \E ty \in MessageTypes, u \in UserIds, m \in Texts :
              SendIrcMessage(t, ty, u, m)
        \/ JoinChan(t)

TargetSpec == TargetInit /\ [][TargetNext]_vars

\* sanitize as a function of its argument: a string of up to MaxStrLen
\* characters, letters and others, and sanitize applied to it and then to
\* its own result
MaxStrLen == 3
MaxApplied == 2
Chars == { "a", "Z", "_", "-", " ", "1", "!" }

SanitizeInit ==
    /\ given \in SeqsUpTo(Chars, MaxStrLen)
    /\ applied = <<>>
    /\ RoomsInit
    /\ ConnInit([n \in IrcNicks |-> None])

Sanitize ==
    /\ Len(applied) < MaxApplied
    /\ applied' = Append(applied, sanitize(IF applied = <<>> THEN given
                                           ELSE applied[Len(applied)]))
    /\ UNCHANGED given
    /\ UNCHANGED <<roomvars, loginvars>>

SanitizeNext == Sanitize

SanitizeSpec == SanitizeInit /\ [][SanitizeNext]_vars

\* ---------------------------------------------------------- properties
DoneTasks == {t \in Tasks : pc[t] = "done"}
Registered_handles == {rooms[r].inner : r \in DOMAIN rooms}
Succeeded(t) == tried[t] # None /\ tried[t][1].ok

\* C1, as stated: all callers of room_target for one room hold the same
\* handle, and it is the one target created and registered for the room.
C1_AllCallersShareOneTarget ==
    \A t \in DoneTasks :
        /\ room[t] \in DOMAIN rooms
        /\ \A u \in DoneTasks :
              room[u] = room[t] => ret[u].inner = ret[t].inner

\* C1, amended: a caller whose resolution succeeded holds the handle
\* registered for its room, so all such callers of one room share it;
\* distinct rooms have distinct handles; a caller whose resolution failed
\* holds a handle of its own that is registered nowhere.
C1_Callers ==
    /\ \A t \in DoneTasks :
          IF Succeeded(t)
          THEN room[t] \in DOMAIN rooms /\ ret[t] = rooms[room[t]]
          ELSE /\ ret[t].inner \notin Registered_handles
               /\ \A u \in DoneTasks \ {t} : ret[u].inner # ret[t].inner
    /\ \A r1, r2 \in DOMAIN rooms : rooms[r1].inner = rooms[r2].inner => r1 = r2

\* C1, amended: a room's registered target is never replaced, and a step
\* registers a target only for the room of the task that created it.
C1_RegisteredOnce ==
    /\ \A r \in DOMAIN rooms : r \in DOMAIN rooms' /\ rooms'[r] = rooms[r]
    /\ Cardinality(DOMAIN rooms') <= Cardinality(DOMAIN rooms) + 1

\* C1, amended: at most one RoomTarget is ever registered for a room, every
\* caller whose resolution succeeds is returned that shared handle, and a
\* caller whose resolution fails is returned its own synthetic target.
C1_OneTargetPerRoom == [](C1_Callers) /\ [][C1_RegisteredOnce]_vars

\* two tasks have resolved the same room, one of them after losing the race
\* under the write lock, and hold the one registered handle
C1_Witness ==
    \E t, u \in DoneTasks :
        /\ t # u /\ room[t] = room[u]
        /\ Succeeded(t) /\ Succeeded(u)
        /\ ret[t] = ret[u] /\ rooms[room[t]] = ret[t]
        /\ nmembers[t] # None /\ name[u] # NoName /\ nmembers[u] = None

\* what a task that has just come out of target_of_room did, by the
\* member count it saw
C2_Created(t) ==
    LET n == nmembers'[t][1]
        h == ret'[t].inner
        registered == room[t] \in DOMAIN rooms' /\ rooms'[room[t]] = ret'[t]
    IN  /\ n = 0 =>
              /\ ~tried'[t][1].ok
              /\ rooms' = rooms /\ targets' = targets
        /\ n \in {1, 2} =>
              /\ tried'[t][1].ok /\ registered
              /\ heap'[h].kind = "Query"
        /\ n >= 3 =>
              /\ tried'[t][1].ok /\ registered
              /\ heap'[h].kind = "JoiningChan"
              /\ heap'[h].pending_messages = <<>>

\* C2: a target created for an unmapped room is a failure with nothing
\* registered for 0 active members, a Query for 1 or 2, a JoiningChan with
\* an empty queue for 3 or more; no resolve step makes a Chan or LeftChan
\* or changes an existing target's state.
C2_VariantByMemberCount ==
    [][ /\ \A t \in Tasks :
              (pc[t] = "members" /\ pc'[t] = "done" /\ nmembers'[t] # None)
                  => C2_Created(t)
        /\ \A h \in DOMAIN heap' :
              IF h \in DOMAIN heap
              THEN heap'[h] = heap[h]
              ELSE heap'[h].kind \in {"Query", "JoiningChan"} ]_vars

\* a task created a JoiningChan for a room of three, another a Query
C2_Witness ==
    \E t, u \in DoneTasks :
        /\ nmembers[t] = Some(3) /\ heap[ret[t].inner].kind = "JoiningChan"
        /\ nmembers[u] = Some(2) /\ heap[ret[u].inner].kind = "Query"

\* C3: every finished room_target call holds a live RoomTarget; if the
\* resolution failed it is a Query named matrirc with a non-empty error
\* annotation, and if it succeeded it has no error annotation.
C3_NeverFailsOutwardly ==
    \A t \in DoneTasks :
        /\ tried[t] # None
        /\ ret[t].inner \in DOMAIN heap
        /\ IF tried[t][1].ok
           THEN ret[t].error = None
           ELSE /\ heap[ret[t].inner].kind = "Query"
                /\ heap[ret[t].inner].chan.target
                       = <<"m", "a", "t", "r", "i", "r", "c">>
                /\ ret[t].error # None
                /\ Len(ret[t].error[1]) > 0

\* one task was handed the error target after a failed fetch, another
\* after a room without members
C3_Witness ==
    \E t, u \in DoneTasks :
        /\ ~tried[t][1].ok /\ nmembers[t] = None /\ ret[t].error # None
        /\ ~tried[u][1].ok /\ nmembers[u] = Some(0) /\ ret[u].error # None

\* C4: join_chan returns the messages submitted to the target while it was
\* JoiningChan, in the order submitted, none lost and none duplicated.
C4_JoinReturnsSubmitted ==
    \A h \in DOMAIN joins :
        \A i \in 1..Len(joins[h]) :
            joins[h][i].ok => joins[h][i].val = submitted[h]

\* C5: join_chan on a Chan or Query target fails and leaves its state
\* unchanged; on a LeftChan target it returns an empty queue and leaves the
\* target a Chan of the same content.
C5_JoinByState ==
    [][ \A h \in DOMAIN heap :
           joins'[h] # joins[h] =>
              LET result == joins'[h][Len(joins'[h])] IN
              /\ heap[h].kind \in {"Chan", "Query"} =>
                    ~result.ok /\ heap'[h] = heap[h]
              /\ heap[h].kind = "LeftChan" =>
                    /\ result = Ok(<<>>)
                    /\ heap'[h] = Chan(heap[h].chan) ]_vars

\* join_chan was refused on a Query target that is as it was
C5_Witness ==
    \E h \in DOMAIN heap :
        /\ heap[h].kind = "Query"
        /\ Len(joins[h]) > 0
        /\ \A i \in 1..Len(joins[h]) : ~joins[h][i].ok

\* C6: every room-table entry has exactly one name-table entry pointing at
\* it, and every name-table entry points at a room of the room table.
C6_TablesCorrespond ==
    /\ \A r \in DOMAIN rooms :
          Cardinality({n \in DOMAIN targets : targets[n] = r}) = 1
    /\ \A n \in DOMAIN targets : targets[n] \in DOMAIN rooms

\* C7: no two registered rooms have targets with the same sanitized name.
C7_NamesUnique ==
    \A r1, r2 \in DOMAIN rooms :
        r1 # r2 =>
            heap[rooms[r1].inner].chan.target # heap[rooms[r2].inner].chan.target

\* the trace entries that belong to the binding of the remote account
IsBinding(e) ==
    \/ e.kind \in {"state::login", "restore_session", "matrix::login",
                   "create_user", "send_privmsg"}
    \/ \E n \in IrcNicks : e = Welcome(n)

\* C8: the connection is past registration, or has sent the welcome, asked
\* the store or tried a restore or a login, only with nickname, username
\* and password all observed; a username event with one of them missing,
\* or the stream ending, leaves it failed with an error as its result.
C8_RegistrationComplete ==
    /\ (lpc \notin {"auth_loop", "failed"} \/ \E i \in 1..Len(trace) : IsBinding(trace[i]))
          => Registered(client_nick, client_user, client_pass)
    /\ (client_user # None /\ (client_nick = None \/ client_pass = None))
          => lpc = "failed"
    /\ event = Some(Ok(None)) => lpc = "failed"
    /\ lpc = "failed" => outcome # None /\ ~outcome[1].ok
    /\ (outcome # None /\ outcome[1].ok) => lpc = "bound"

\* the username arrived with the password missing: failed, nothing done
C8_Witness ==
    /\ client_nick # None /\ client_user # None /\ client_pass = None
    /\ lpc = "failed"
    /\ trace = <<>>

\* C9: whatever the connection does for the remote binding - asking the
\* store, a restore, a prompt or any other private message, a login - comes
\* after the welcome in the trace.
C9_WelcomeFirst ==
    \A i \in 1..Len(trace) :
        trace[i].kind \in {"state::login", "restore_session", "matrix::login",
                           "create_user", "send_privmsg"}
            => \E j \in 1..(i - 1), n \in IrcNicks :
                   client_nick = Some(n) /\ trace[j] = Welcome(n)

\* welcome, then the store, then the prompt and a login attempt
C9_Witness ==
    \E i, j, k, l \in 1..Len(trace) :
        /\ i < j /\ j < k /\ k < l
        /\ client_nick # None
        /\ trace[i] = Welcome(client_nick[1])
        /\ trace[j].kind = "state::login"
        /\ trace[k] = Prompt
        /\ trace[l].kind = "matrix::login"

\* matrix_restore_session's two messages, whatever they name
IsRestoring(e) ==
    e.kind = "send_privmsg" /\ e.arg[1] = "Welcome to matrirc. Restoring session to "
IsRestoreFailed(e) ==
    e.kind = "send_privmsg" /\ e.arg[1] = "Restoring session failed: "

\* C10: with a persisted session found for the nickname, a prompt is sent
\* only after a restore attempt and the notice of its failure; with none
\* found, the connection goes to the login loop and never attempts a
\* restore; nothing of either happens before the store was asked.
C10_RestoreBeforePrompt ==
    /\ (found # None /\ found[1] # None) =>
          \A i \in 1..Len(trace) :
              trace[i] = Prompt =>
                  \E j, k \in 1..(i - 1) :
                      /\ j < k
                      /\ trace[j] = Called("restore_session", found[1][1])
                      /\ IsRestoreFailed(trace[k])
    /\ (found # None /\ found[1] = None) =>
          /\ \A i \in 1..Len(trace) :
                trace[i].kind # "restore_session" /\ ~IsRestoring(trace[i])
          /\ lpc \in {"login_prompt", "login_loop", "matrix_login", "bound", "failed"}
    /\ found = None =>
          \A i \in 1..Len(trace) :
              trace[i].kind \notin {"restore_session", "send_privmsg"}
    /\ lpc \in {"restore_greeting", "restore_session"} =>
          found # None /\ found[1] # None /\ Prompt \notin {trace[i] : i \in 1..Len(trace)}

\* a session was found, its restoration failed, and the prompt was sent
C10_Witness ==
    /\ found # None /\ found[1] # None
    /\ \E i \in 1..Len(trace) : trace[i] = Prompt

\* the stream event just read is a private message
IsPrivmsg(e) == e # None /\ e[1].ok /\ e[1].val # None /\ e[1].val[1].cmd = "PRIVMSG"

\* the number of spaces in a message body
Spaces(body) == Cardinality({i \in 1..Len(body) : body[i] = " "})

\* the connection is waiting for the remote credentials
AwaitingCredentials == lpc \in {"login_loop", "matrix_login"}

\* C11: a reply read in the login loop that has fewer than two spaces, so
\* that it does not split into three parts, changes nothing: the loop
\* keeps waiting, nothing is written to the stream, no login is attempted
\* and the store is as it was.
C11_MalformedReplyIgnored ==
    [][ (lpc = "login_loop" /\ nread' # nread /\ IsPrivmsg(event')
            /\ Spaces(event'[1].val[1].arg) < 2)
        => /\ lpc' = "login_loop"
           /\ trace' = trace
           /\ store' = store
           /\ creds' = creds
           /\ outcome' = outcome ]_vars

\* a two-token reply was read after the prompt and nothing followed
C11_Witness ==
    /\ lpc = "login_loop"
    /\ IsPrivmsg(event) /\ Spaces(event[1].val[1].arg) = 1
    /\ trace[Len(trace)] = Prompt

IsLoginFailed(e) == e.kind = "send_privmsg" /\ e.arg[1] = "Login failed: "

\* the stream event just read is the end of the stream or a read error
StreamOver(e) == e # None /\ (~e[1].ok \/ e[1].val = None)

C13_RestoreFailureFallsThrough ==
    /\ [](outcome # Some(Err(<<"expired">>)))
    /\ [][ lpc = "restore_session"
           => /\ lpc' \in {"bound", "login_prompt", "failed"}
              /\ IsRestoreFailed(trace'[Len(trace')])
                 => lpc' = "login_prompt" /\ outcome' = outcome /\ store' = store
              /\ lpc' = "login_prompt" => IsRestoreFailed(trace'[Len(trace')])
              /\ lpc' = "failed" => outcome' = Some(Err(SendError)) ]_vars

\* Bound was reached by a login after a restore had failed
C13_Witness ==
    /\ lpc = "bound"
    /\ \E i \in 1..Len(trace) : IsRestoreFailed(trace[i])
    /\ trace[Len(trace)].kind = "create_user"

\* C14: in Bound the store holds a session for the connection's nickname,
\* the one the client was built from; when Bound was reached by a login,
\* the store write is the last thing that happened and the stored pair is
\* the homeserver of the credentials and the session the login returned.
C14_BoundIsPersisted ==
    lpc = "bound"
    => /\ client_nick # None /\ client_user # None
       /\ store[client_nick[1]] # None
       /\ outcome = Some(Ok(<<client_nick[1], client_user[1],
                              store[client_nick[1]][1]>>))
       /\ \A i \in 1..Len(trace) :
             (trace[i].kind = "matrix::login"
                /\ \A j \in (i+1)..Len(trace) : trace[j].kind # "matrix::login")
             => /\ trace[Len(trace)] = Called("create_user", client_nick[1])
                /\ store[client_nick[1]] =
                      Some([homeserver |-> trace[i].arg[1],
                            matrix_session |-> NewBlob])

\* Bound was reached by a login for a nickname that had no session stored
C14_Witness ==
    /\ lpc = "bound"
    /\ found = Some(None)
    /\ trace[Len(trace)].kind = "create_user"

\* the label the claim gives a sender in a Chan value: the nickname if the
\* member is known there, the member id otherwise
SenderLabel(c, sender_id) ==
    IF sender_id \in DOMAIN c.members THEN c.members[sender_id] ELSE sender_id

\* C15 as stated: whatever the variant, a message written to the stream is
\* "<label> text" with the label the nickname of the sender if known in
\* the target and the member id otherwise.
C15_SameLabelEverywhere ==
    [][ sent' # sent
        => \E t \in DoneTasks, u \in UserIds, x \in Texts :
              sent'[Len(sent')].message =
                  Labelled(SenderLabel(heap[ret[t].inner].chan, u), x) ]_vars

\* C15, amended: a message written to the stream comes from the target's
\* name and goes to the client's nick; its text is "<nickname> text" for a
\* sender known in the target; for an unknown sender it is
\* "<member id> text" in the three channel variants and the bare text in a
\* Query.
C15_LabelByVariant ==
    [][ sent' # sent
        => \E t \in DoneTasks, ty \in MessageTypes, u \in UserIds, x \in Texts :
              LET inner == heap[ret[t].inner] IN
              sent'[Len(sent')] =
                [ message_type |-> ty,
                  from |-> inner.chan.target,
                  target |-> IrcNick,
                  message |->
                    IF u \in DOMAIN inner.chan.members \/ inner.kind # "Query"
                    THEN Labelled(SenderLabel(inner.chan, u), x)
                    ELSE x ] ]_vars

\* a Query has written the bare text of a message from an unknown sender
C15_Witness ==
    \E t \in DoneTasks :
        /\ heap[ret[t].inner].kind = "Query"
        /\ \E i \in 1..Len(sent) : sent[i].message \in Texts

\* the characters the claim keeps
KeptChar(c) == c \in SanitizeKept

\* C16: sanitize's result is its argument without the characters outside
\* {A-Z, a-z, _, -}, the others kept in their order, and sanitize applied
\* to its own result returns that result, the empty one included.
C16_SanitizeFiltersAndIsIdempotent ==
    \A k \in 1..Len(applied) :
        /\ applied[k] = SelectSeq(given, KeptChar)
        /\ k > 1 => applied[k] = applied[k - 1]

\* sanitize was applied twice to a string with characters of both kinds
\* between which one was removed
C16_Witness ==
    /\ Len(applied) = 2
    /\ \E i, j, k \in 1..Len(given) :
          /\ i < j /\ j < k
          /\ KeptChar(given[i]) /\ ~KeptChar(given[j]) /\ KeptChar(given[k])

\* C17: no task holds the registry's write lock while its display-name
\* fetch or its membership fetch is outstanding.
C17_NoLockAcrossFetch ==
    \A t \in Tasks : wlock = t => pc[t] \notin {"display_name", "members"}

\* the number of join_chan calls on a target that returned Ok
Drained(results) == Cardinality({i \in 1..Len(results) : results[i].ok})

\* C18: of the join_chan calls on one target at most one returns Ok; the
\* call that finds the target JoiningChan returns its queue and leaves it a
\* plain Chan of the same Chan value, with no queue in it; a call that
\* finds it Chan fails with "invalid room target" and changes nothing; no
\* call leaves a target JoiningChan.
C18_DrainedOnce ==
    /\ [](\A h \in DOMAIN joins :
            /\ Drained(joins[h]) <= 1
            /\ (h \in DOMAIN heap /\ heap[h].kind = "JoiningChan")
                   => joins[h] = <<>>)
    /\ [][ \A h \in DOMAIN joins \cap DOMAIN joins' :
             joins'[h] # joins[h]
             => /\ heap[h].kind = "JoiningChan"
                   => /\ joins'[h] = Append(joins[h],
                                            Ok(heap[h].pending_messages))
                      /\ heap'[h] = [kind |-> "Chan", chan |-> heap[h].chan]
                /\ heap[h].kind = "Chan"
                   => /\ joins'[h] = Append(joins[h],
                                            Err(<<"invalid room target">>))
                      /\ heap'[h] = heap[h] ]_vars

\* two join_chan calls were made on a target that was JoiningChan with
\* messages queued: the first got them, the second failed, the target is
\* a Chan
C18_Witness ==
    \E h \in DOMAIN joins :
        /\ Len(joins[h]) = 2
        /\ joins[h][1].ok /\ joins[h][1].val # <<>>
        /\ ~joins[h][2].ok
        /\ heap[h].kind = "Chan"

\* C19: the name-table entry of a registered room is keyed by the name in
\* the room's target, and that name looked up in the name table gives the
\* room's id.
C19_KeyedByTargetName ==
    /\ \A r \in DOMAIN rooms :
          MapGet(targets, heap[rooms[r].inner].chan.target) = Some(r)
    /\ \A k \in DOMAIN targets :
          targets[k] \in DOMAIN rooms
             => k = heap[rooms[targets[k]].inner].chan.target

\* C20: a room_target call whose resolution fails leaves both tables as
\* they were and the write lock free; the target it returns instead is in
\* no table, and no registered target carries an error.
C20_FailureRegistersNothing ==
    /\ [](/\ \A r \in DOMAIN rooms : rooms[r].error = None
          /\ \A t \in DoneTasks :
                ~Succeeded(t) => /\ ret[t].error # None
                                 /\ ret[t].inner \notin Registered_handles)
    /\ [][ \A t \in Tasks :
             (pc[t] \in InResolve /\ pc'[t] = "done" /\ ~Succeeded(t)')
             => rooms' = rooms /\ targets' = targets /\ wlock' = 0 ]_vars

\* a call for a room failed, and a later call for the same room created
\* and registered its target
C20_Witness ==
    \E t, u \in DoneTasks :
        /\ t # u /\ room[t] = room[u]
        /\ ~Succeeded(t)
        /\ Succeeded(u) /\ nmembers[u] # None
        /\ rooms[room[u]] = ret[u]

====
